---- MODULE Spec2Model ----
(***************************************************************************)
(* Model of run_app.py, the launcher of Linux-ComfyUI-Launcher.            *)
(*                                                                         *)
(*   9  project_root = Path(__file__).parent                               *)
(*  10  sys.path.insert(0, str(project_root))                              *)
(*  13  from backend.main import main                                      *)
(*  15  if __name__ == "__main__":                                         *)
(*  16      main()                                                         *)
(*                                                                         *)
(* A path is the sequence of its components; an absolute path starts with  *)
(* the component "/".  The file system says, for every directory, what it  *)
(* holds under the name backend.  The import statement of line 13 is       *)
(* modelled by what the interpreter does for it: the sys.modules cache,    *)
(* the scan of sys.path in order (regular packages, namespace portions,    *)
(* entries relative to the working directory), the lookup of the           *)
(* submodule main along the package's __path__, and the lookup of the      *)
(* attribute main in the loaded module.                                    *)
(***************************************************************************)
EXTENDS Integers, Sequences, FiniteSets, TLC

VARIABLES
    cwd,            \* the working directory of the process
    fs,             \* directory -> what it holds under the name backend
    file_,          \* __file__ of the launcher module
    name_,          \* __name__ of the launcher module
    project_root,   \* line 9's variable (a Path), Unset before line 9
    sys_path,       \* sys.path
    sys_modules,    \* sys.modules, restricted to backend and backend.main
    main_,          \* the launcher's name main: the directory its module came from
    pc,             \* position in the module body
    calls,          \* invocations of main in this process
    imports,        \* executions of line 13 in the current run of the body
    execs,          \* runs of the module body started in this process
    steps,          \* the statements the current run of the body has executed
    raised,         \* the error raised in the current run of the body, or NoError
    reported,       \* the error that left the module body unhandled, or NoError
    status,         \* exit status: Running, 0 or 1
    init_path,      \* sys.path as it was when the process first entered the body
    init_modules    \* sys.modules as it was then

vars == <<cwd, fs, file_, name_, project_root, sys_path, sys_modules, main_, pc,
          calls, imports, execs, steps, raised, reported, status, init_path,
          init_modules>>

----------------------------------------------------------------------------
(* Bounds *)

\* longest sys.path the process starts with
MaxPath == 2
\* most runs of the module body in one process (first import plus reloads)
MaxExec == 3

----------------------------------------------------------------------------
(* Directories and files *)

RootDir == <<"/", "proj">>
SiteDir == <<"/", "site">>
TmpDir == <<"/", "tmp">>
Dirs == {RootDir, SiteDir, TmpDir}
LauncherFile == <<"/", "proj", "run_app.py">>

Unset == <<"<unset>">>
NoError == "none"
Running == "running"

\* what a directory holds under the name backend:
\*   pkg     "none", "regular" (backend/__init__.py) or "namespace" (backend/ only)
\*   main    backend/main.py: "absent", "ok" (defines main), "nosym" (defines no
\*           main) or "syntax" (does not compile)
Holds(p, m) == [pkg |-> p, main |-> m]
NoPkg == Holds("none", "absent")
RootKinds ==
    {NoPkg} \cup {Holds(p, m) : p \in {"regular", "namespace"},
                                m \in {"absent", "ok", "nosym", "syntax"}}
SiteKinds == {NoPkg, Holds("regular", "ok"), Holds("namespace", "ok"),
              Holds("regular", "absent")}
TmpKinds == {NoPkg, Holds("regular", "ok")}

----------------------------------------------------------------------------
(* pathlib and os path resolution *)

\* Path(s): the components of s, "." components dropped
RECURSIVE PathOf(_)
PathOf(s) ==
    IF s = <<>> THEN <<>>
    ELSE IF Head(s) = "." THEN PathOf(Tail(s))
    ELSE <<Head(s)>> \o PathOf(Tail(s))

\* (mutant) the working directory taken for the launcher's directory
Parent_Cwd(p) == <<>>

\* Path.parent: the last component dropped; "." and "/" are their own parent
Parent(p) ==
    IF p = <<>> \/ p = <<"/">> THEN p ELSE SubSeq(p, 1, Len(p) - 1)

\* str(Path): the path with no component is "."
Str(p) == IF p = <<>> THEN <<".">> ELSE p

IsAbs(s) == s # <<>> /\ Head(s) = "/"

\* the directory an absolute component sequence names: "." skipped, ".." up
RECURSIVE Normalize(_, _)
Normalize(done, rest) ==
    IF rest = <<>> THEN done
    ELSE IF Head(rest) = "." THEN Normalize(done, Tail(rest))
    ELSE IF Head(rest) = ".."
        THEN Normalize(IF Len(done) > 1 THEN SubSeq(done, 1, Len(done) - 1) ELSE done,
                       Tail(rest))
    ELSE Normalize(Append(done, Head(rest)), Tail(rest))

\* the directory a sys.path entry names in a process whose working directory
\* is w: an absolute entry names itself, "" and relative entries start at w
Resolve(entry, w) ==
    IF IsAbs(entry) THEN Normalize(<<"/">>, Tail(entry))
    ELSE Normalize(w, entry)

FsAt(d) == IF d \in Dirs THEN fs[d] ELSE NoPkg

----------------------------------------------------------------------------
(* The import system, as line 13 uses it *)

NotLoaded == <<>>
NoDir == <<>>
Unbound == <<>>

\* PathFinder: the entries of a search path in order.  The first directory
\* holding a regular package backend is the package; directories holding only
\* backend/ are gathered as the portions of a namespace package, which is the
\* result when no regular package is found.  <<>>: nothing provides backend.
RECURSIVE ScanPath(_, _, _)
ScanPath(path, w, portions) ==
    IF path = <<>> THEN portions
    ELSE LET d == Resolve(Head(path), w) IN
         IF FsAt(d).pkg = "regular" THEN <<d>>
         ELSE IF FsAt(d).pkg = "namespace"
             THEN ScanPath(Tail(path), w, Append(portions, d))
         ELSE ScanPath(Tail(path), w, portions)

\* the first directory of a package's __path__ that holds main.py, or NoDir
RECURSIVE FindMain(_)
FindMain(pkgpath) ==
    IF pkgpath = <<>> THEN NoDir
    ELSE IF FsAt(Head(pkgpath)).main # "absent" THEN Head(pkgpath)
    ELSE FindMain(Tail(pkgpath))

\* import backend: the cached package if sys.modules holds one, else the scan
ResolvedPkg(path, modules, w) ==
    IF modules.backend # NotLoaded THEN modules.backend
    ELSE ScanPath(path, w, <<>>)

\* from backend.main import main, in a process with search path `path`, module
\* cache `modules` and working directory w: the error raised (or NoError), the
\* module cache afterwards, and the directory the imported main comes from
ImportFrom(path, modules, w) ==
    LET pkg == ResolvedPkg(path, modules, w)
        withPkg == [modules EXCEPT !.backend = pkg]
        mod == IF modules.mainmod # NoDir THEN modules.mainmod ELSE FindMain(pkg)
        withMod == [withPkg EXCEPT !.mainmod = mod]
    IN  IF pkg = NotLoaded
            THEN [err |-> "ModuleNotFoundError", modules |-> modules, main |-> Unbound]
        ELSE IF mod = NoDir
            THEN [err |-> "ModuleNotFoundError", modules |-> withPkg, main |-> Unbound]
        ELSE IF modules.mainmod = NoDir /\ FsAt(mod).main = "syntax"
            THEN [err |-> "SyntaxError", modules |-> withPkg, main |-> Unbound]
        ELSE IF FsAt(mod).main = "nosym"
            THEN [err |-> "ImportError", modules |-> withMod, main |-> Unbound]
        ELSE [err |-> NoError, modules |-> withMod, main |-> mod]

----------------------------------------------------------------------------
(* The states a process can enter the module body in *)

\* the working directories a process is started in
Cwds == {RootDir, TmpDir}

\* the forms of the launcher's path
FileForms ==
    {<<"/", "proj", "run_app.py">>, <<"/", "tmp", "..", "proj", "run_app.py">>,
     <<"run_app.py">>, <<".", "run_app.py">>, <<"..", "proj", "run_app.py">>}

PathEntries == {RootDir, SiteDir, <<>>}
InitPaths == UNION {[1..n -> PathEntries] : n \in 0..MaxPath}

\* what main() may raise
MainErrors == {"RuntimeError"}
ErrorKinds ==
    {"ModuleNotFoundError", "ImportError", "SyntaxError", "AttributeError"}
        \cup MainErrors

Init ==
    /\ cwd \in Cwds
    /\ fs \in {f \in [Dirs -> RootKinds] :
                  f[SiteDir] \in SiteKinds /\ f[TmpDir] \in TmpKinds}
    /\ name_ \in {"__main__", "run_app"}
    \* the script's __file__ is the path given to the interpreter (made
    \* absolute, not normalised, by newer interpreters); an imported module's
    \* __file__ is absolute
    /\ file_ \in {f \in FileForms :
                    /\ Resolve(f, cwd) = LauncherFile
                    /\ name_ = "run_app" => IsAbs(f)}
    /\ sys_path \in InitPaths
    \* a fresh interpreter has loaded no backend; a program that imports the
    \* launcher may have imported a regular package backend before
    /\ sys_modules \in
         {[backend |-> NotLoaded, mainmod |-> NoDir]} \cup
         {[backend |-> <<d>>, mainmod |-> NoDir] :
            d \in {e \in {SiteDir} : name_ = "run_app" /\ fs[e].pkg = "regular"}}
    /\ project_root = Unset
    /\ main_ = Unbound
    /\ pc = "resolve"
    /\ calls = 0
    /\ imports = 0
    /\ execs = 1
    /\ steps = <<>>
    /\ raised = NoError
    /\ reported = NoError
    /\ status = Running
    /\ init_path = sys_path
    /\ init_modules = sys_modules

----------------------------------------------------------------------------
(* The module body *)

\* (mutant) except ...: sys.exit(0)
Propagate_ExitZero(kind) ==
    /\ raised' = kind
    /\ reported' = kind
    /\ pc' = "failed"
    /\ status' = IF name_ = "__main__" THEN 0 ELSE status

\* (mutant) except ImportError as e: raise RuntimeError(...) from e
Propagate_Translated(kind) ==
    /\ raised' = kind
    /\ reported' = "RuntimeError"
    /\ pc' = "failed"
    /\ status' = IF name_ = "__main__" THEN 1 ELSE status

\* how an error raised at module level leaves the process: nothing in the body
\* catches it, so the kind raised is the kind reported; the script's process
\* exits with status 1, an importing program gets the error from its import
Propagate(kind) ==
    /\ raised' = kind
    /\ reported' = kind
    /\ pc' = "failed"
    /\ status' = IF name_ = "__main__" THEN 1 ELSE status

\* (mutant) the import statement placed before the registration
ResolveRoot_ImportFirst ==
    /\ pc = "resolve"
    /\ project_root' = Parent(PathOf(file_))
    /\ pc' = "import"
    /\ steps' = Append(steps, "resolve")
    /\ UNCHANGED <<cwd, fs, file_, name_, sys_path, sys_modules, main_, calls,
                   imports, execs, raised, reported, status, init_path, init_modules>>

\* line 9: project_root = Path(__file__).parent
ResolveRoot ==
    /\ pc = "resolve"
    /\ project_root' = Parent(PathOf(file_))
    /\ pc' = "register"
    /\ steps' = Append(steps, "resolve")
    /\ UNCHANGED <<cwd, fs, file_, name_, sys_path, sys_modules, main_, calls,
                   imports, execs, raised, reported, status, init_path, init_modules>>

\* (mutant) sys.path.append(str(project_root))
Register_Append ==
    /\ pc = "register"
    /\ sys_path' = Append(sys_path, Str(project_root))
    /\ pc' = "import"
    /\ steps' = Append(steps, "register")
    /\ UNCHANGED <<cwd, fs, file_, name_, project_root, sys_modules, main_, calls,
                   imports, execs, raised, reported, status, init_path, init_modules>>

\* (mutant) if str(project_root) not in sys.path: sys.path.insert(0, ...)
Register_Idempotent ==
    /\ pc = "register"
    /\ sys_path' = IF \E i \in 1..Len(sys_path) : sys_path[i] = Str(project_root)
                     THEN sys_path
                     ELSE <<Str(project_root)>> \o sys_path
    /\ pc' = "import"
    /\ steps' = Append(steps, "register")
    /\ UNCHANGED <<cwd, fs, file_, name_, project_root, sys_modules, main_, calls,
                   imports, execs, raised, reported, status, init_path, init_modules>>

\* (mutant) the registration moved under the __main__ guard
Register_OnlyTopLevel ==
    /\ pc = "register"
    /\ sys_path' = IF name_ = "__main__"
                     THEN <<Str(project_root)>> \o sys_path
                     ELSE sys_path
    /\ pc' = "import"
    /\ steps' = Append(steps, "register")
    /\ UNCHANGED <<cwd, fs, file_, name_, project_root, sys_modules, main_, calls,
                   imports, execs, raised, reported, status, init_path, init_modules>>

\* line 10: sys.path.insert(0, str(project_root))
Register ==
    /\ pc = "register"
    /\ sys_path' = <<Str(project_root)>> \o sys_path
    /\ pc' = "import"
    /\ steps' = Append(steps, "register")
    /\ UNCHANGED <<cwd, fs, file_, name_, project_root, sys_modules, main_, calls,
                   imports, execs, raised, reported, status, init_path, init_modules>>

\* (mutant) the import wrapped in a loop that tries a second time on failure
ImportMain_Retry ==
    /\ pc = "import"
    /\ LET r == ImportFrom(sys_path, sys_modules, cwd) IN
        /\ sys_modules' = r.modules
        /\ imports' = imports + 1
        /\ steps' = Append(steps, "import")
        /\ IF r.err = NoError
             THEN /\ main_' = r.main
                  /\ pc' = "guard"
                  /\ UNCHANGED <<raised, reported, status>>
             ELSE IF imports = 0
             THEN /\ pc' = "import"
                  /\ UNCHANGED <<main_, raised, reported, status>>
             ELSE /\ Propagate(r.err)
                  /\ UNCHANGED main_
    /\ UNCHANGED <<cwd, fs, file_, name_, project_root, sys_path, calls, execs,
                   init_path, init_modules>>

\* line 13: from backend.main import main
ImportMain ==
    /\ pc = "import"
    /\ LET r == ImportFrom(sys_path, sys_modules, cwd) IN
        /\ sys_modules' = r.modules
        /\ imports' = imports + 1
        /\ steps' = Append(steps, "import")
        /\ IF r.err = NoError
             THEN /\ main_' = r.main
                  /\ pc' = "guard"
                  /\ UNCHANGED <<raised, reported, status>>
             ELSE /\ Propagate(r.err)
                  /\ UNCHANGED main_
    /\ UNCHANGED <<cwd, fs, file_, name_, project_root, sys_path, calls, execs,
                   init_path, init_modules>>

\* (mutant) if __name__ != "__main__":
Guard_Inverted ==
    /\ pc = "guard"
    /\ steps' = Append(steps, "guard")
    /\ IF name_ # "__main__"
         THEN /\ pc' = "RUNNING"
              /\ calls' = calls + 1
              /\ status' = status
         ELSE /\ pc' = "done"
              /\ calls' = calls
              /\ status' = status
    /\ UNCHANGED <<cwd, fs, file_, name_, project_root, sys_path, sys_modules,
                   main_, imports, execs, raised, reported, init_path, init_modules>>

\* (mutant) main() called at module level, without the guard
Guard_Unguarded ==
    /\ pc = "guard"
    /\ steps' = Append(steps, "guard")
    /\ pc' = "RUNNING"
    /\ calls' = calls + 1
    /\ status' = status
    /\ UNCHANGED <<cwd, fs, file_, name_, project_root, sys_path, sys_modules,
                   main_, imports, execs, raised, reported, init_path, init_modules>>

\* line 15: if __name__ == "__main__":  and the call of line 16
Guard ==
    /\ pc = "guard"
    /\ steps' = Append(steps, "guard")
    /\ IF name_ = "__main__"
         THEN /\ pc' = "RUNNING"
              /\ calls' = calls + 1
              /\ status' = status
         ELSE /\ pc' = "done"
              /\ calls' = calls
              /\ status' = status
    /\ UNCHANGED <<cwd, fs, file_, name_, project_root, sys_path, sys_modules,
                   main_, imports, execs, raised, reported, init_path, init_modules>>

\* line 16: main() returns; the body ends and the script's process exits 0
MainReturns ==
    /\ pc = "RUNNING"
    /\ pc' = "done"
    /\ status' = 0
    /\ steps' = Append(steps, "return")
    /\ UNCHANGED <<cwd, fs, file_, name_, project_root, sys_path, sys_modules,
                   main_, calls, imports, execs, raised, reported, init_path, init_modules>>

\* line 16: main() raises
MainRaises ==
    /\ pc = "RUNNING"
    /\ \E kind \in MainErrors : Propagate(kind)
    /\ steps' = Append(steps, "raise")
    /\ UNCHANGED <<cwd, fs, file_, name_, project_root, sys_path, sys_modules,
                   main_, calls, imports, execs, init_path, init_modules>>

\* the importing program runs the body again: importlib.reload after a
\* completed import (the module's names are kept), or a second import after a
\* failed one (a new module)
Reexecute ==
    /\ pc \in {"done", "failed"}
    /\ name_ = "run_app"
    /\ execs < MaxExec
    /\ execs' = execs + 1
    /\ pc' = "resolve"
    /\ project_root' = IF pc = "done" THEN project_root ELSE Unset
    /\ main_' = IF pc = "done" THEN main_ ELSE Unbound
    /\ imports' = 0
    /\ steps' = <<>>
    /\ raised' = NoError
    /\ reported' = NoError
    /\ UNCHANGED <<cwd, fs, file_, name_, sys_path, sys_modules, calls, status,
                   init_path, init_modules>>

Next ==
    \/ ResolveRoot
    \/ Register
    \/ ImportMain
    \/ Guard
    \/ MainReturns
    \/ MainRaises
    \/ Reexecute

Spec == Init /\ [][Next]_vars

----------------------------------------------------------------------------
(* Vocabulary of the properties *)

Script == name_ = "__main__"
Library == name_ = "run_app"
Terminal == pc \in {"done", "failed"}
Has(seq, x) == \E i \in 1..Len(seq) : seq[i] = x
LastStep == IF steps = <<>> THEN "none" ELSE steps[Len(steps)]
ImportFailed == pc = "failed" /\ LastStep = "import"
OnPath(d) == \E i \in 1..Len(sys_path) : Resolve(sys_path[i], cwd) = d
ImportErrors == {"ModuleNotFoundError", "ImportError"}

\* the entry line 10 inserts for a launcher whose __file__ is f
EntryOf(f) == Str(Parent(PathOf(f)))

\* the first run of the body has just executed line 13
JustImported == execs = 1 /\ steps = <<"resolve", "register", "import">>

\* a start of the same program (same files, same sys.path, same sys.modules)
\* in working directory w, the launcher named by f
ValidStart(w, f) == Resolve(f, w) = LauncherFile /\ (Library => IsAbs(f))

\* what line 13 yields in that start: the error and the origin of main
OutcomeFrom(w, f) ==
    LET r == ImportFrom(<<EntryOf(f)>> \o init_path, init_modules, w)
    IN  <<r.err, r.main>>

\* the registrations executed so far in this process
Registered == execs - (IF Has(steps, "register") THEN 0 ELSE 1)
Copies(e, k) == [i \in 1..k |-> e]

NoOtherMain == \A d \in Dirs \ {RootDir} : fs[d].main = "absent"

----------------------------------------------------------------------------
(* C1 *)

\* C1: when the launcher runs as the top-level program and the import of
\* backend.main succeeds, main is invoked exactly once: never twice at any
\* point of the run, and once (not zero times) in every complete run.
C1_MainCalledExactlyOnce ==
    Script => /\ calls <= 1
              /\ (Terminal /\ main_ # Unbound => calls = 1)

C1_Witness == Script /\ pc = "done" /\ main_ # Unbound /\ calls = 1 /\ status = 0

(* C2 *)

\* C2: when the launcher's file is imported as a library, main is never
\* invoked: the invocation count is 0 in every state, RUNNING is never entered.
C2_LibraryNeverInvokes == Library => calls = 0 /\ pc # "RUNNING"

C2_Witness == Library /\ pc = "done" /\ main_ # Unbound /\ execs = 2

(* C3 *)

\* C3 as stated: the launcher is run with a backend package holding main.py
\* with main under its own directory; the import resolves backend.main from
\* that directory, and every start that differs only in the working directory
\* has the same import outcome.
C3_Original ==
    Script /\ JustImported /\ fs[RootDir].pkg # "none" /\ fs[RootDir].main = "ok"
        => /\ <<raised, main_>> = <<NoError, RootDir>>
           /\ \A w \in Cwds, f \in FileForms :
                ValidStart(w, f) => OutcomeFrom(w, f) = <<raised, main_>>

\* C3 as amended: when the launcher's directory holds backend as a regular
\* package (with __init__.py) whose main.py defines main, then from every
\* working directory the import resolves backend.main from the launcher's
\* directory, with the same outcome.
C3_WorkingDirectoryIndependent ==
    Script /\ JustImported /\ fs[RootDir] = Holds("regular", "ok")
        => /\ <<raised, main_>> = <<NoError, RootDir>>
           /\ \A w \in Cwds, f \in FileForms :
                ValidStart(w, f) => OutcomeFrom(w, f) = <<raised, main_>>

C3_Witness ==
    /\ Script
    /\ JustImported
    /\ cwd = TmpDir
    /\ ~IsAbs(file_)
    /\ fs[RootDir] = Holds("regular", "ok")
    /\ fs[TmpDir] = Holds("regular", "ok")
    /\ init_path = << <<>>, SiteDir >>
    /\ main_ = RootDir

(* C4 *)

\* C4 as stated: after the register step the root is sys.path[0], and the
\* search of sys.path for the name backend yields the package under the root
\* whenever the root provides one, whatever the other entries provide.
C4_Original ==
    Has(steps, "register")
        => /\ Resolve(sys_path[1], cwd) = RootDir
           /\ (fs[RootDir].pkg # "none"
                 => Head(ScanPath(sys_path, cwd, <<>>)) = RootDir)

\* C4 as amended: after the register step the root is sys.path[0], and the
\* search of sys.path for the name backend yields the package under the root,
\* whatever the other entries provide, when the root holds backend as a
\* regular package (with __init__.py).
C4_RootFirst ==
    Has(steps, "register")
        => /\ Resolve(sys_path[1], cwd) = RootDir
           /\ (fs[RootDir].pkg = "regular"
                 => ScanPath(sys_path, cwd, <<>>) = <<RootDir>>)

C4_Witness ==
    /\ pc = "import"
    /\ fs[RootDir].pkg = "regular"
    /\ fs[SiteDir] = Holds("regular", "ok")
    /\ init_path = <<SiteDir>>
    /\ ScanPath(sys_path, cwd, <<>>) = <<RootDir>>

(* C5 *)

\* C5 as stated: with backend/main.py absent under the root, a run of the
\* launcher never invokes main and ends with an unhandled import error and a
\* non-zero exit status.
C5_Original ==
    Script /\ fs[RootDir].main = "absent"
        => /\ calls = 0
           /\ (Terminal => pc = "failed" /\ reported \in ImportErrors /\ status = 1)

\* C5 as amended: the same, when moreover the root holds backend as a regular
\* package or no other directory provides backend/main.py; the error is
\* ModuleNotFoundError.
C5_MissingFileFails ==
    Script /\ fs[RootDir].main = "absent"
           /\ (fs[RootDir].pkg = "regular" \/ NoOtherMain)
        => /\ calls = 0
           /\ pc \notin {"guard", "RUNNING", "done"}
           /\ (Terminal => /\ pc = "failed"
                           /\ reported = "ModuleNotFoundError"
                           /\ status = 1)

C5_Witness ==
    /\ Script
    /\ fs[RootDir] = Holds("regular", "absent")
    /\ fs[SiteDir] = Holds("regular", "ok")
    /\ Has(init_path, SiteDir)
    /\ pc = "failed"
    /\ status = 1

(* C6 *)

\* C6 as stated: with a backend/main.py under the root that defines no main,
\* a run of the launcher ends with an unhandled attribute-resolution error.
C6_Original ==
    Script /\ fs[RootDir].pkg # "none" /\ fs[RootDir].main = "nosym" /\ Terminal
        => pc = "failed" /\ reported = "AttributeError"

\* C6 as amended: with backend a regular package under the root whose main.py
\* defines no main, a run of the launcher ends with an unhandled ImportError
\* (cannot import name), status 1, main never invoked: an import error like the
\* missing-file case, whose ModuleNotFoundError is a subclass of it.
C6_MissingSymbolFails ==
    Script /\ fs[RootDir] = Holds("regular", "nosym")
        => /\ calls = 0
           /\ (Terminal => /\ pc = "failed"
                           /\ reported = "ImportError"
                           /\ status = 1)

C6_Witness ==
    /\ Script
    /\ fs[RootDir] = Holds("regular", "nosym")
    /\ pc = "failed"
    /\ reported = "ImportError"
    /\ sys_modules.mainmod = RootDir

(* C7 *)

\* C7: an error raised by the import or by main leaves the module body
\* unhandled: in the failed state line 13 has run exactly once, main was
\* started at most once (not at all when the import failed), the kind
\* reported is the kind raised, and a script's process has ended, with
\* status 1 and no further step.
C7_NoRecovery ==
    pc = "failed"
        => /\ imports = 1
           /\ calls <= 1
           /\ raised # NoError
           /\ reported = raised
           /\ LastStep \in {"import", "raise"}
           /\ (LastStep = "import" => calls = 0 /\ main_ = Unbound)
           /\ (LastStep = "raise" => raised \in MainErrors /\ calls = 1)
           /\ (Script => status = 1 /\ ~ENABLED Next)

C7_Witness ==
    pc = "failed" /\ Script /\ LastStep = "raise" /\ reported \in MainErrors

(* C8 *)

\* C8: registration, then import, then invocation: line 13 is reached only
\* with the root on the search path and line 10 executed, and RUNNING is
\* entered only after lines 9, 10, 13 and 15, in that order, with main bound.
C8_StrictOrder ==
    /\ (pc = "import" => steps = <<"resolve", "register">> /\ OnPath(RootDir))
    /\ (imports >= 1 => SubSeq(steps, 1, 3) = <<"resolve", "register", "import">>)
    /\ (pc = "RUNNING" => /\ steps = <<"resolve", "register", "import", "guard">>
                          /\ Resolve(sys_path[1], cwd) = RootDir
                          /\ main_ # Unbound
                          /\ raised = NoError)

C8_Witness ==
    pc = "RUNNING" /\ ~Has(init_path, RootDir) /\ cwd = TmpDir /\ main_ = RootDir

(* C9 *)

\* C9: every run of the body prepends one entry for the root and nothing else
\* changes sys.path: after k registrations sys.path is k copies of that entry
\* followed by the initial path; and the duplicates do not change what line 13
\* yields: it fails exactly when it fails with a single copy.
C9_PurePrepend ==
    /\ sys_path = Copies(EntryOf(file_), Registered) \o init_path
    /\ (imports = 1 =>
          (ImportFailed <=> OutcomeFrom(cwd, file_)[1] # NoError))

C9_Witness ==
    /\ execs = 3
    /\ pc = "done"
    /\ Len(sys_path) = Len(init_path) + 3
    /\ sys_path[1] = sys_path[3]
    /\ main_ = RootDir

(* C10 *)

\* C10: imported as a library, the body still registers the root and runs the
\* import: at the end of every run of the body sys.path starts with the root
\* entry and has grown by one per run, main was not invoked, and when no
\* directory provides backend/main.py the import of the launcher itself has
\* failed with the ModuleNotFoundError of line 13.
C10_SideEffectsUnguarded ==
    Library /\ Terminal
        => /\ SubSeq(steps, 1, 3) = <<"resolve", "register", "import">>
           /\ imports = 1
           /\ Resolve(sys_path[1], cwd) = RootDir
           /\ Len(sys_path) = Len(init_path) + execs
           /\ calls = 0
           /\ (pc = "failed" => reported = raised /\ raised # NoError)
           /\ ((\A d \in Dirs : fs[d].main = "absent")
                 => pc = "failed" /\ reported = "ModuleNotFoundError")

C10_Witness ==
    /\ Library
    /\ pc = "failed"
    /\ \A d \in Dirs : fs[d].main = "absent"
    /\ ~Has(init_path, RootDir)
    /\ Resolve(sys_path[1], cwd) = RootDir

====
